---- MODULE Spec2Model ----
(***************************************************************************)
(* A model of biclustlib's Plaid algorithm (algorithms/plaid.py) and of    *)
(* the executable wrapper skeleton (algorithms/wrappers/_base.py,          *)
(* bimax.py).                                                              *)
(*                                                                         *)
(* Numbers: numpy works on floats; the model works on exact rationals      *)
(* <<numerator, denominator>> kept in lowest terms, so rounding is not     *)
(* modelled.  Index arrays (numpy int arrays) are sequences of 0-based     *)
(* indices; matrices are functions  0..r-1 -> 0..c-1 -> rational.          *)
(* sklearn's k_means and numpy's shuffle are nondeterministic choices.     *)
(***************************************************************************)
EXTENDS Integers, Sequences, FiniteSets, TLC

(* ------------------------------ bounds -------------------------------- *)
\* shape of the larger input matrices (a planted block in a zero matrix)
NumRows == 4
NumCols == 4
\* the planted block's shape
BlockRows == 2
BlockCols == 2
\* shape of the small input matrices, on which significance tests run
SmallRows == 2
SmallCols == 2
\* input entries are integers in 0..MaxVal (small matrices), 0..BlockMaxVal
\* (the planted block)
MaxVal == 1
BlockMaxVal == 1
\* configuration ranges
MaxBiclusters == 2
MaxSigTests == 2
MaxBackFit == 1
MaxIters == 2
SmallMaxIters == 1
MaxInit == 1
\* thresholds are k / ThrDen
ThrDen == 4
\* executions of the executable wrapper
MaxRuns == 4

(* ----------------------------- rationals ------------------------------ *)
Abs(x) == IF x < 0 THEN -x ELSE x

RECURSIVE GCD(_, _)
GCD(a, b) == IF b = 0 THEN a ELSE GCD(b, a % b)

Rat(n, d) == LET g == GCD(Abs(n), d) IN <<n \div g, d \div g>>
Zero == <<0, 1>>
One == <<1, 1>>
\* sums and comparisons go through the least common denominator, products are
\* reduced crosswise first: intermediate values stay as small as they can be
RAdd(a, b) ==
    LET g == GCD(a[2], b[2])
    IN Rat(a[1] * (b[2] \div g) + b[1] * (a[2] \div g), (a[2] \div g) * b[2])
RNeg(a) == <<-a[1], a[2]>>
RSub(a, b) == RAdd(a, RNeg(b))
RMul(a, b) ==
    LET g1 == GCD(Abs(a[1]), b[2])
        g2 == GCD(Abs(b[1]), a[2])
    IN <<(a[1] \div g1) * (b[1] \div g2), (a[2] \div g2) * (b[2] \div g1)>>
RDivInt(a, k) == LET g == GCD(Abs(a[1]), k) IN <<a[1] \div g, a[2] * (k \div g)>>
RLess(a, b) ==
    LET g == GCD(a[2], b[2]) IN a[1] * (b[2] \div g) < b[1] * (a[2] \div g)
RLeq(a, b) ==
    LET g == GCD(a[2], b[2]) IN a[1] * (b[2] \div g) <= b[1] * (a[2] \div g)

\* sum of f[0], ..., f[n-1]
RECURSIVE RSum(_, _)
RSum(f, n) == IF n = 0 THEN Zero ELSE RAdd(RSum(f, n - 1), f[n - 1])

(* ------------------------------ matrices ------------------------------ *)
NRows(m) == Cardinality(DOMAIN m)
NCols(m) == IF NRows(m) = 0 THEN 0 ELSE Cardinality(DOMAIN m[0])

\* numpy's m.T
Transpose(m) == [j \in 0..(NCols(m) - 1) |-> [i \in 0..(NRows(m) - 1) |-> m[i][j]]]

\* numpy's residuals[rows[:, np.newaxis], cols]
SubMatrix(m, rows, cols) ==
    [i \in 0..(Len(rows) - 1) |-> [j \in 0..(Len(cols) - 1) |-> m[rows[i + 1]][cols[j + 1]]]]

\* np.arange(n)
Arange(n) == [k \in 1..n |-> k - 1]

\* np.sum(m * m)
SumOfSquares(m) ==
    RSum([i \in 0..(NRows(m) - 1) |->
            RSum([j \in 0..(NCols(m) - 1) |-> RMul(m[i][j], m[i][j])], NCols(m))],
         NRows(m))

\* Plaid._create_layer: mean + row_effects[:, np.newaxis] + col_effects
CreateLayer(sub) ==
    LET r == NRows(sub)
        c == NCols(sub)
        rowSum == [i \in 0..(r - 1) |-> RSum(sub[i], c)]
        colSum == [j \in 0..(c - 1) |-> RSum([i \in 0..(r - 1) |-> sub[i][j]], r)]
        mean == RDivInt(RSum(rowSum, r), r * c)
        row_effects == [i \in 0..(r - 1) |-> RSub(RDivInt(rowSum[i], c), mean)]
        col_effects == [j \in 0..(c - 1) |-> RSub(RDivInt(colSum[j], r), mean)]
    IN [i \in 0..(r - 1) |-> [j \in 0..(c - 1) |->
            RAdd(RAdd(mean, row_effects[i]), col_effects[j])]]

(* ------------------------- the layer fitter --------------------------- *)
\* np.where(flags)[0] for flags over positions 0..n-1: the positions that hold,
\* ascending
RECURSIVE Where(_, _)
Where(flags, n) ==
    IF n = 0 THEN <<>>
    ELSE IF flags[n - 1] THEN Append(Where(flags, n - 1), n - 1)
         ELSE Where(flags, n - 1)

\* TakeAt returning the positions instead of the indices at them
TakeAtPositions(rows, selected_indices) == selected_indices

\* numpy's rows[selected_indices]
TakeAt(rows, selected_indices) ==
    [k \in 1..Len(selected_indices) |-> rows[selected_indices[k] + 1]]

\* PruneKeeps with the threshold itself in place of its complement
PruneKeepsNoComplement(sum_squared_diff, sum_squared_residuals, prunning_threshold) ==
    RLess(sum_squared_diff, RMul(prunning_threshold, sum_squared_residuals))

\* the comparison of Plaid._prune, line 176
PruneKeeps(sum_squared_diff, sum_squared_residuals, prunning_threshold) ==
    RLess(sum_squared_diff, RMul(RSub(One, prunning_threshold), sum_squared_residuals))

\* Plaid._prune
Prune(residuals, layer, rows, cols, prunning_threshold) ==
    LET nr == Len(rows)
        nc == Len(cols)
        res == SubMatrix(residuals, rows, cols)
        diff == [i \in 0..(nr - 1) |-> [j \in 0..(nc - 1) |-> RSub(res[i][j], layer[i][j])]]
        sum_squared_diff ==
            [i \in 0..(nr - 1) |-> RSum([j \in 0..(nc - 1) |-> RMul(diff[i][j], diff[i][j])], nc)]
        sum_squared_residuals ==
            [i \in 0..(nr - 1) |-> RSum([j \in 0..(nc - 1) |-> RMul(res[i][j], res[i][j])], nc)]
        selected_indices ==
            Where([i \in 0..(nr - 1) |->
                     PruneKeeps(sum_squared_diff[i], sum_squared_residuals[i],
                                prunning_threshold)], nr)
    IN TakeAt(rows, selected_indices)

\* What sklearn's k_means(residuals, n_clusters=2) may return as labels for n
\* vectors: one label of {0, 1} per vector, both labels in use (the contract of
\* the two-cluster primitive; which labelling is the library's choice).
KMeansLabels(n) ==
    {l \in [0..(n - 1) -> {0, 1}] : (\E a \in 0..(n - 1) : l[a] = 0) /\ (\E b \in 0..(n - 1) : l[b] = 1)}

\* Plaid._kmeans_initialization, from the labels on: the smaller group, label 0
\* on a tie
KMeansInitialization(labels, n) ==
    LET count0 == Cardinality({a \in 0..(n - 1) : labels[a] = 0})
        count1 == Cardinality({a \in 0..(n - 1) : labels[a] = 1})
    IN IF count0 <= count1
       THEN Where([a \in 0..(n - 1) |-> labels[a] = 0], n)
       ELSE Where([a \in 0..(n - 1) |-> labels[a] = 1], n)

\* the selections _kmeans_initialization can return for n vectors
InitialSelections(n) == {KMeansInitialization(l, n) : l \in KMeansLabels(n)}

\* FitRoundOp pruning the columns against the freshly pruned rows
FitRoundOpNewRows(residuals, rows, cols, layer, row_thr, col_thr) ==
    LET rows_old_ == rows
        new_rows == Prune(residuals, layer, rows, cols, row_thr)
        new_cols == Prune(Transpose(residuals), Transpose(layer), cols, new_rows, col_thr)
        empty == Len(new_rows) = 0 \/ Len(new_cols) = 0
    IN [rows |-> new_rows, cols |-> new_cols, rows_old |-> rows_old_, stop |-> empty,
        layer |-> IF empty THEN layer
                  ELSE CreateLayer(SubMatrix(residuals, new_rows, new_cols))]

\* One pass of the loop body of Plaid._fit_layer (lines 159-166).  stop: the
\* loop breaks.
FitRoundOp(residuals, rows, cols, layer, row_thr, col_thr) ==
    LET rows_old_ == rows
        new_rows == Prune(residuals, layer, rows, cols, row_thr)
        new_cols == Prune(Transpose(residuals), Transpose(layer), cols, rows_old_, col_thr)
        empty == Len(new_rows) = 0 \/ Len(new_cols) = 0
    IN [rows |-> new_rows, cols |-> new_cols, rows_old |-> rows_old_, stop |-> empty,
        layer |-> IF empty THEN layer
                  ELSE CreateLayer(SubMatrix(residuals, new_rows, new_cols))]

\* the loop of Plaid._fit_layer from round k on, budget rounds in all
RECURSIVE FitLoop(_, _, _, _, _, _, _, _)
FitLoop(residuals, rows, cols, layer, k, budget, row_thr, col_thr) ==
    IF k >= budget THEN [rows |-> rows, cols |-> cols, layer |-> layer]
    ELSE LET r == FitRoundOp(residuals, rows, cols, layer, row_thr, col_thr)
         IN IF r.stop THEN [rows |-> r.rows, cols |-> r.cols, layer |-> r.layer]
            ELSE FitLoop(residuals, r.rows, r.cols, r.layer, k + 1, budget, row_thr, col_thr)

\* Plaid._fit_layer, given the initial bicluster k-means produced
FitLayer(residuals, rows0, cols0, budget, row_thr, col_thr) ==
    FitLoop(residuals, rows0, cols0, CreateLayer(SubMatrix(residuals, rows0, cols0)),
            0, budget, row_thr, col_thr)

\* np.random.shuffle(m.flat) under the permutation p of the flat positions
Shuffle(m, p) ==
    LET c == NCols(m)
    IN [i \in 0..(NRows(m) - 1) |-> [j \in 0..(c - 1) |->
            LET q == p[i * c + j] IN m[q \div c][q % c]]]

\* the matrices np.random.shuffle(m.flat) can leave in m
ShuffleOutcomes(m) ==
    {Shuffle(m, p) : p \in Permutations(0..(NRows(m) * NCols(m) - 1))}

\* residuals[rows[:, np.newaxis], cols] -= layer
SubtractAt(residuals, rows, cols, layer) ==
    [i \in DOMAIN residuals |-> [j \in DOMAIN residuals[i] |->
        IF (\E x \in 1..Len(rows) : rows[x] = i) /\ (\E y \in 1..Len(cols) : cols[y] = j)
        THEN LET a == CHOOSE x \in 1..Len(rows) : rows[x] = i
                 b == CHOOSE y \in 1..Len(cols) : cols[y] = j
             IN RSub(residuals[i][j], layer[a - 1][b - 1])
        ELSE residuals[i][j]]]

\* residuals[rows[:, np.newaxis], cols] += layer
AddAt(residuals, rows, cols, layer) ==
    [i \in DOMAIN residuals |-> [j \in DOMAIN residuals[i] |->
        IF (\E x \in 1..Len(rows) : rows[x] = i) /\ (\E y \in 1..Len(cols) : cols[y] = j)
        THEN LET a == CHOOSE x \in 1..Len(rows) : rows[x] = i
                 b == CHOOSE y \in 1..Len(cols) : cols[y] = j
             IN RAdd(residuals[i][j], layer[a - 1][b - 1])
        ELSE residuals[i][j]]]

(* --------------------------- configuration ---------------------------- *)
\* the thresholds k / ThrDen
Thr(k) == Rat(k, ThrDen)

\* Plaid._validate_parameters: TRUE when it raises ValueError
ValidateRaises(c) ==
    \/ c.num_biclusters <= 0 \/ c.initialization_iterations <= 0 \/ c.iterations_per_layer < 0
    \/ c.significance_tests < 0 \/ c.back_fitting_steps < 0
    \/ RLeq(One, c.row_prunning_threshold) \/ RLeq(c.row_prunning_threshold, Zero)
    \/ RLeq(One, c.col_prunning_threshold) \/ RLeq(c.col_prunning_threshold, Zero)

\* the constructor's parameters (Plaid.__init__), each over a small range that
\* holds rejected values too
AllConfigs ==
    [num_biclusters : -1..MaxBiclusters,
     fit_background_layer : BOOLEAN,
     row_prunning_threshold : {Thr(k) : k \in -1..(ThrDen + 1)},
     col_prunning_threshold : {Thr(k) : k \in -1..(ThrDen + 1)},
     significance_tests : -1..1,
     back_fitting_steps : -1..1,
     initialization_iterations : -1..MaxInit,
     iterations_per_layer : -1..1,
     return_layers : BOOLEAN]

\* The configurations whole runs are explored for, on the small matrices.
\* Significance trials multiply the runs: with trials, runs are explored in
\* biclusters-only mode with the full round budget.
RunConfigs ==
    {c \in [num_biclusters : 0..MaxBiclusters,
            fit_background_layer : BOOLEAN,
            row_prunning_threshold : {Thr(2)},
            col_prunning_threshold : {Thr(2)},
            significance_tests : 0..MaxSigTests,
            back_fitting_steps : 0..MaxBackFit,
            initialization_iterations : {MaxInit},
            iterations_per_layer : 0..SmallMaxIters,
            return_layers : BOOLEAN] :
        c.significance_tests > 0 =>
            ~c.return_layers /\ c.iterations_per_layer = SmallMaxIters}

\* the configurations explored on the block matrices: no significance trials
BlockConfigs ==
    [num_biclusters : {1},
     fit_background_layer : BOOLEAN,
     row_prunning_threshold : {Thr(2)},
     col_prunning_threshold : {Thr(2)},
     significance_tests : {0},
     back_fitting_steps : 0..MaxBackFit,
     initialization_iterations : {MaxInit},
     iterations_per_layer : 0..MaxIters,
     return_layers : {TRUE}]

\* input matrices: a block of entries 0..BlockMaxVal planted in a zero matrix
BlockData ==
    {[i \in 0..(NumRows - 1) |-> [j \in 0..(NumCols - 1) |->
        IF i < BlockRows /\ j < BlockCols THEN <<b[i][j], 1>> ELSE Zero]] :
     b \in [0..(BlockRows - 1) -> [0..(BlockCols - 1) -> 0..BlockMaxVal]]}

\* input matrices: every small matrix of entries 0..MaxVal
SmallData ==
    {[i \in 0..(SmallRows - 1) |-> [j \in 0..(SmallCols - 1) |-> <<b[i][j], 1>>]] :
     b \in [0..(SmallRows - 1) -> [0..(SmallCols - 1) -> 0..MaxVal]]}

(* ------------------------------- state -------------------------------- *)
VARIABLES
    pc,                  \* position in Plaid.run
    cfg,                 \* self: the constructor's parameters
    data,                \* the caller's matrix
    residuals,           \* run: residuals
    biclusters,          \* run: biclusters, a sequence of [rows, cols]
    layers,              \* run: layers
    i,                   \* run: the discovery loop's index
    rows, cols, layer,   \* _fit_layer: rows, cols, layer
    rows_old,            \* _fit_layer: rows_old
    fround,              \* _fit_layer: rounds of its loop executed
    trial,               \* _is_significant: trials executed
    shuffled_residuals,  \* _is_significant: shuffled_residuals
    layer_sum_of_squares,\* _is_significant: layer_sum_of_squares
    bstep, bj,           \* _back_fitting: its loops' indices i and j
    returned,            \* what run returned
    \* history, read by the properties only
    cols_old, layer_old, \* cols and layer as the last round found them
    init_rows, init_cols,\* the candidate's initial bicluster
    fit_calls,           \* calls of _fit_layer by the discovery loop
    last_score,          \* the last trial's test_layer_sum_of_squares
    significant,         \* what _is_significant returned: "yes", "no", or "none" yet
    broke,               \* the discovery loop left by break
    accepted,            \* the biclusters the discovery loop accepted, in order, each
                         \* with the initial bicluster it was pruned from
    snap,                \* residuals, biclusters, layers as the last candidate was proposed
    \* ExecutableWrapper.run
    wpc,                 \* position in ExecutableWrapper.run
    wkind,               \* the class run is called on
    tmp_dirs,            \* the temporary directories that exist
    tmp_dir,             \* run: tmp_dir
    wruns,               \* executions of run so far
    \* Plaid._prune under two thresholds
    ppc, p_in, p_out

wrapperVars == <<wpc, wkind, tmp_dirs, tmp_dir, wruns>>
pruneVars == <<ppc, p_in, p_out>>
otherVars == <<wrapperVars, pruneVars>>

vars == <<otherVars, pc, cfg, data, residuals, biclusters, layers, i, rows, cols, layer, rows_old,
          fround, trial, shuffled_residuals, layer_sum_of_squares, bstep, bj, returned,
          cols_old, layer_old, init_rows, init_cols, fit_calls, last_score, significant, broke,
          accepted, snap>>

runState == <<residuals, biclusters, layers>>
fitVars == <<rows, cols, layer, rows_old, fround, cols_old, layer_old, init_rows, init_cols>>
sigVars == <<trial, shuffled_residuals, layer_sum_of_squares, last_score, significant>>
backVars == <<bstep, bj>>

None == <<>>

WrapperIdle ==
    wpc = "idle" /\ wkind = "abstract" /\ tmp_dirs = {} /\ tmp_dir = 0 /\ wruns = 0

PruneIdle == ppc = "idle" /\ p_in = None /\ p_out = None

PlaidState(c, d) ==
    /\ pc = "start" /\ cfg = c /\ data = d
    /\ residuals = None /\ biclusters = <<>> /\ layers = <<>> /\ i = 0
    /\ rows = <<>> /\ cols = <<>> /\ layer = None /\ rows_old = <<>> /\ fround = 0
    /\ trial = 0 /\ shuffled_residuals = None /\ layer_sum_of_squares = Zero
    /\ bstep = 0 /\ bj = 0 /\ returned = None
    /\ cols_old = <<>> /\ layer_old = None /\ init_rows = <<>> /\ init_cols = <<>>
    /\ fit_calls = 0 /\ last_score = Zero /\ significant = "none" /\ broke = FALSE
    /\ accepted = <<>> /\ snap = None

InitWith(c, d) == PlaidState(c, d) /\ WrapperIdle /\ PruneIdle

\* whole runs, significance trials included, on the small matrices: a shuffle
\* ranges over every permutation of the flat matrix
Init == \E c \in RunConfigs, d \in SmallData : InitWith(c, d)

\* runs without significance trials on the block matrices
InitBlock == \E c \in BlockConfigs, d \in BlockData : InitWith(c, d)

(* ------------------------------ Plaid.run ----------------------------- *)
\* run, line 92: self._validate_parameters()
Validate ==
    /\ pc = "start"
    /\ pc' = IF ValidateRaises(cfg) THEN "error" ELSE "copy"
    /\ UNCHANGED <<otherVars, cfg, data, runState, i, fitVars, sigVars, backVars, returned,
                   fit_calls, broke, accepted, snap>>

\* run, lines 94-96
CopyInput ==
    /\ pc = "copy"
    /\ residuals' = data
    /\ biclusters' = <<>> /\ layers' = <<>>
    /\ pc' = "background"
    /\ UNCHANGED <<otherVars, cfg, data, i, fitVars, sigVars, backVars, returned, fit_calls, broke, accepted, snap>>

FullBicluster == [rows |-> Arange(NRows(data)), cols |-> Arange(NCols(data))]

\* run, lines 98-102
Background ==
    /\ pc = "background"
    /\ IF cfg.fit_background_layer
       THEN LET background_layer == CreateLayer(residuals)
            IN /\ layers' = Append(layers, background_layer)
               /\ residuals' = SubtractAt(residuals, Arange(NRows(residuals)),
                                          Arange(NCols(residuals)), background_layer)
               /\ biclusters' = Append(biclusters, FullBicluster)
       ELSE UNCHANGED runState
    /\ i' = 0
    /\ pc' = "loop"
    /\ UNCHANGED <<otherVars, cfg, data, fitVars, sigVars, backVars, returned, fit_calls, broke, accepted, snap>>

\* LoopContinues with an inclusive bound
LoopContinuesInclusive(index, num_biclusters) == index <= num_biclusters

\* run, line 104: the for loop goes on to iteration i
LoopContinues(index, num_biclusters) == index < num_biclusters

\* run, line 105 and _fit_layer, lines 155-156: the discovery loop calls
\* _fit_layer, which draws the initial bicluster and fits its layer
FitStart ==
    /\ pc = "loop"
    /\ LoopContinues(i, cfg.num_biclusters)
    /\ \E r0 \in InitialSelections(NRows(residuals)), c0 \in InitialSelections(NCols(residuals)) :
          /\ rows' = r0 /\ cols' = c0
          /\ layer' = CreateLayer(SubMatrix(residuals, r0, c0))
          /\ init_rows' = r0 /\ init_cols' = c0
          /\ cols_old' = c0
          /\ layer_old' = layer'
    /\ rows_old' = <<>>
    /\ fround' = 0
    /\ fit_calls' = fit_calls + 1
    /\ snap' = runState
    /\ pc' = IF cfg.iterations_per_layer <= 0 THEN "fitted" ELSE "fit"
    /\ UNCHANGED <<otherVars, cfg, data, runState, i, sigVars, backVars, returned, broke,
                   accepted>>

\* run, line 104: the for loop is exhausted
LoopExit ==
    /\ pc = "loop"
    /\ ~LoopContinues(i, cfg.num_biclusters)
    /\ pc' = "finalize"
    /\ UNCHANGED <<otherVars, cfg, data, runState, i, fitVars, sigVars, backVars, returned,
                   fit_calls, broke, accepted, snap>>

\* _fit_layer, lines 158-168: one round of its loop; after the last round, or
\* on break, it returns
FitRound ==
    /\ pc = "fit"
    /\ LET r == FitRoundOp(residuals, rows, cols, layer,
                           cfg.row_prunning_threshold, cfg.col_prunning_threshold)
       IN /\ rows_old' = r.rows_old
          /\ rows' = r.rows /\ cols' = r.cols /\ layer' = r.layer
          /\ pc' = IF r.stop \/ fround + 1 >= cfg.iterations_per_layer THEN "fitted" ELSE "fit"
    /\ cols_old' = cols /\ layer_old' = layer
    /\ fround' = fround + 1
    /\ UNCHANGED <<otherVars, cfg, data, runState, i, init_rows, init_cols, sigVars, backVars,
                   returned, fit_calls, broke, accepted, snap>>

\* NotSignificant with a strict comparison
NotSignificantStrict(test_layer_sum_of_squares, candidate_sum_of_squares) ==
    RLess(candidate_sum_of_squares, test_layer_sum_of_squares)

\* _is_significant, line 191: the trial's layer is at least as strong as the
\* candidate's
NotSignificant(test_layer_sum_of_squares, candidate_sum_of_squares) ==
    RLeq(candidate_sum_of_squares, test_layer_sum_of_squares)

\* run, line 107: a degenerate candidate breaks the loop; otherwise
\* _is_significant starts (lines 181-182) and, without trials, returns True
CheckCandidate ==
    /\ pc = "fitted"
    /\ IF Len(rows) = 0 \/ Len(cols) = 0
       THEN /\ broke' = TRUE
            /\ pc' = "finalize"
            /\ UNCHANGED sigVars
       ELSE /\ layer_sum_of_squares' = SumOfSquares(layer)
            /\ shuffled_residuals' = residuals
            /\ trial' = 0
            /\ last_score' = Zero
            /\ significant' = IF cfg.significance_tests <= 0 THEN "yes" ELSE "none"
            /\ pc' = IF cfg.significance_tests <= 0 THEN "accept" ELSE "sig"
            /\ UNCHANGED broke
    \* _fit_layer has returned: its locals are gone
    /\ rows_old' = <<>> /\ cols_old' = <<>> /\ layer_old' = None
    /\ UNCHANGED <<otherVars, cfg, data, runState, i, rows, cols, layer, fround, init_rows,
                   init_cols, backVars, returned,
                   fit_calls, accepted, snap>>

\* _is_significant, lines 184-194: one trial; run, lines 107-108: a layer that
\* is not significant breaks the loop
SigTrial ==
    /\ pc = "sig"
    /\ \E sh \in ShuffleOutcomes(shuffled_residuals),
          r0 \in InitialSelections(NRows(shuffled_residuals)),
          c0 \in InitialSelections(NCols(shuffled_residuals)) :
          LET test_layer == FitLayer(sh, r0, c0, cfg.iterations_per_layer,
                                     cfg.row_prunning_threshold,
                                     cfg.col_prunning_threshold).layer
              test_layer_sum_of_squares == SumOfSquares(test_layer)
          IN /\ shuffled_residuals' = sh
             /\ last_score' = test_layer_sum_of_squares
             /\ IF NotSignificant(test_layer_sum_of_squares, layer_sum_of_squares)
                THEN significant' = "no" /\ broke' = TRUE /\ pc' = "finalize"
                ELSE /\ UNCHANGED broke
                     /\ IF trial + 1 >= cfg.significance_tests
                        THEN significant' = "yes" /\ pc' = "accept"
                        ELSE significant' = "none" /\ pc' = "sig"
    /\ trial' = trial + 1
    /\ UNCHANGED <<otherVars, cfg, data, runState, i, fitVars, layer_sum_of_squares, backVars,
                   returned, fit_calls, accepted, snap>>

\* run, lines 110-113: the layer is subtracted and the pair appended
AcceptOp(res, ls, bs, r, c, l) ==
    [residuals |-> SubtractAt(res, r, c, l),
     layers |-> Append(ls, l),
     biclusters |-> Append(bs, [rows |-> r, cols |-> c])]

\* run, lines 110-115: the candidate is accepted and _back_fitting starts
Accept ==
    /\ pc = "accept"
    /\ LET a == AcceptOp(residuals, layers, biclusters, rows, cols, layer)
       IN residuals' = a.residuals /\ layers' = a.layers /\ biclusters' = a.biclusters
    /\ accepted' = Append(accepted, [rows |-> rows, cols |-> cols,
                                      init_rows |-> init_rows, init_cols |-> init_cols])
    /\ init_rows' = <<>> /\ init_cols' = <<>>
    /\ bstep' = 0 /\ bj' = 0
    /\ IF cfg.back_fitting_steps <= 0
       THEN pc' = "loop" /\ i' = i + 1
       ELSE pc' = "backfit" /\ UNCHANGED i
    \* _is_significant has returned: its locals are gone
    /\ trial' = 0 /\ shuffled_residuals' = None /\ layer_sum_of_squares' = Zero
    /\ last_score' = Zero /\ significant' = "none"
    /\ UNCHANGED <<otherVars, cfg, data, rows, cols, layer, rows_old, fround, cols_old, layer_old,
                   returned, fit_calls, broke, snap>>

\* BackFitOp refitting the layer without adding the old one back first
BackFitOpNoAddBack(res, ls, bs, j) ==
    LET b == bs[j + 1]
        refit == CreateLayer(SubMatrix(res, b.rows, b.cols))
    IN [residuals |-> SubtractAt(res, b.rows, b.cols, refit),
        layers |-> [ls EXCEPT ![j + 1] = refit]]

\* _back_fitting, lines 200-202: add the layer back, refit it, subtract it
BackFitOp(res, ls, bs, j) ==
    LET b == bs[j + 1]
        restored == AddAt(res, b.rows, b.cols, ls[j + 1])
        refit == CreateLayer(SubMatrix(restored, b.rows, b.cols))
    IN [residuals |-> SubtractAt(restored, b.rows, b.cols, refit),
        layers |-> [ls EXCEPT ![j + 1] = refit]]

\* _back_fitting, lines 198-202: one visit of pair j in step bstep; after the
\* last visit of the last step run's loop goes on (line 104)
BackFitVisit ==
    /\ pc = "backfit"
    /\ LET v == BackFitOp(residuals, layers, biclusters, bj)
       IN residuals' = v.residuals /\ layers' = v.layers
    /\ UNCHANGED biclusters
    /\ IF bj + 1 < Len(layers)
       THEN bj' = bj + 1 /\ UNCHANGED <<bstep, pc, i>>
       ELSE /\ bj' = 0
            /\ bstep' = bstep + 1
            /\ IF bstep + 1 >= cfg.back_fitting_steps
               THEN pc' = "loop" /\ i' = i + 1
               ELSE UNCHANGED <<pc, i>>
    /\ UNCHANGED <<otherVars, cfg, data, fitVars, sigVars, returned, fit_calls, broke, accepted, snap>>

\* models.Biclustering(biclusters): it keeps the list it is given, so run's
\* later pop and append act on the list it returns
Biclustering(bs) == [biclusters |-> bs]

\* FinalizeOp leaving the background pair in place in biclusters-only mode
FinalizeOpKeepsBackground(c, res, ls, bs, full) ==
    IF c.return_layers
    THEN [layers |-> Append(ls, res),
          biclusters |-> Append(bs, full),
          returned |-> [biclustering |-> Biclustering(Append(bs, full)),
                        layers |-> Append(ls, res), with_layers |-> TRUE]]
    ELSE [layers |-> ls,
          biclusters |-> bs,
          returned |-> [biclustering |-> Biclustering(bs),
                        layers |-> <<>>, with_layers |-> FALSE]]

\* FinalizeOp popping the background bicluster but not the background layer
FinalizeOpLayerNotPopped(c, res, ls, bs, full) ==
    IF c.return_layers
    THEN [layers |-> Append(ls, res),
          biclusters |-> Append(bs, full),
          returned |-> [biclustering |-> Biclustering(Append(bs, full)),
                        layers |-> Append(ls, res), with_layers |-> TRUE]]
    ELSE IF c.fit_background_layer
    THEN [layers |-> ls,
          biclusters |-> Tail(bs),
          returned |-> [biclustering |-> Biclustering(Tail(bs)),
                        layers |-> <<>>, with_layers |-> FALSE]]
    ELSE [layers |-> ls,
          biclusters |-> bs,
          returned |-> [biclustering |-> Biclustering(bs),
                        layers |-> <<>>, with_layers |-> FALSE]]

\* run, lines 117-128: the lists as run leaves them, and its return value
FinalizeOp(c, res, ls, bs, full) ==
    IF c.return_layers
    THEN [layers |-> Append(ls, res),
          biclusters |-> Append(bs, full),
          returned |-> [biclustering |-> Biclustering(Append(bs, full)),
                        layers |-> Append(ls, res), with_layers |-> TRUE]]
    ELSE IF c.fit_background_layer
    THEN [layers |-> Tail(ls),
          biclusters |-> Tail(bs),
          returned |-> [biclustering |-> Biclustering(Tail(bs)),
                        layers |-> <<>>, with_layers |-> FALSE]]
    ELSE [layers |-> ls,
          biclusters |-> bs,
          returned |-> [biclustering |-> Biclustering(bs),
                        layers |-> <<>>, with_layers |-> FALSE]]

Finalize ==
    /\ pc = "finalize"
    /\ LET f == FinalizeOp(cfg, residuals, layers, biclusters, FullBicluster)
       IN layers' = f.layers /\ biclusters' = f.biclusters /\ returned' = f.returned
    /\ pc' = "done"
    /\ UNCHANGED <<otherVars, cfg, data, residuals, i, fitVars, sigVars, backVars, fit_calls, broke, accepted, snap>>

Next ==
    \/ Validate
    \/ CopyInput
    \/ Background
    \/ FitStart
    \/ LoopExit
    \/ FitRound
    \/ CheckCandidate
    \/ SigTrial
    \/ Accept
    \/ BackFitVisit
    \/ Finalize

Spec == Init /\ [][Next]_vars

\* with significance_tests = 0 no trial is ever run
NextBlock ==
    \/ Validate
    \/ CopyInput
    \/ Background
    \/ FitStart
    \/ LoopExit
    \/ FitRound
    \/ CheckCandidate
    \/ Accept
    \/ BackFitVisit
    \/ Finalize

SpecBlock == InitBlock /\ [][NextBlock]_vars

(* ------------------------- configurations only ------------------------ *)
\* the matrix the configurations are tried on
ConfigData == [a \in 0..(SmallRows - 1) |-> [b \in 0..(SmallCols - 1) |-> One]]

InitConfig == \E c \in AllConfigs : InitWith(c, ConfigData)

\* run up to the residual copy (lines 92-96)
NextConfig ==
    \/ Validate
    \/ CopyInput

SpecConfig == InitConfig /\ [][NextConfig]_vars

(* ------------------- _prune under two thresholds ---------------------- *)
\* the thresholds inside (0, 1)
ValidThresholds == {Thr(k) : k \in 1..(ThrDen - 1)}

\* a residual matrix as run hands it to _fit_layer first: the input, less the
\* background layer when one is fitted
FirstResiduals(d, background) ==
    IF background
    THEN SubtractAt(d, Arange(NRows(d)), Arange(NCols(d)), CreateLayer(d))
    ELSE d

\* Inputs of _prune as the first round of _fit_layer meets them (lines 155-160)
InitPrune ==
    /\ PlaidState(CHOOSE c \in BlockConfigs : TRUE, ConfigData) /\ WrapperIdle
    /\ ppc = "ready" /\ p_out = None
    /\ \E d \in BlockData, background \in BOOLEAN,
          r0 \in InitialSelections(NumRows), c0 \in InitialSelections(NumCols) :
          LET res == FirstResiduals(d, background)
          IN p_in = [residuals |-> res, rows |-> r0, cols |-> c0,
                     layer |-> CreateLayer(SubMatrix(res, r0, c0))]

\* _prune applied to the same residuals, layer, rows and cols under two
\* thresholds t1 <= t2
ApplyPrune ==
    /\ ppc = "ready"
    /\ \E t1 \in ValidThresholds, t2 \in ValidThresholds :
          /\ RLeq(t1, t2)
          /\ p_out' = [t1 |-> t1, t2 |-> t2,
                       kept1 |-> Prune(p_in.residuals, p_in.layer, p_in.rows, p_in.cols, t1),
                       kept2 |-> Prune(p_in.residuals, p_in.layer, p_in.rows, p_in.cols, t2)]
    /\ ppc' = "done"
    /\ UNCHANGED <<p_in, wrapperVars, pc, cfg, data, runState, i, fitVars, sigVars, backVars,
                   returned, fit_calls, broke, accepted, snap>>

NextPrune == ApplyPrune

SpecPrune == InitPrune /\ [][NextPrune]_vars

(* ------------------------ ExecutableWrapper.run ----------------------- *)
\* How a hook of the wrapper can end.  The skeleton's hooks are abstract: a
\* subclass's hook returns or raises.  Bimax defines _write_data(self, data),
\* _get_command(self, data_path, output_path) and _parse_output(self), which run
\* calls with two, three and one arguments: each call raises TypeError.
HookOutcomes(kind) == IF kind = "bimax" THEN {"raise"} ELSE {"return", "raise"}

\* exit statuses of the wrapped executable
ExitStatuses == {0, 1}

InitWrapper ==
    /\ PlaidState(CHOOSE c \in BlockConfigs : TRUE, ConfigData) /\ PruneIdle
    /\ wpc = "idle" /\ wkind \in {"abstract", "bimax"}
    /\ tmp_dirs = {} /\ tmp_dir = 0 /\ wruns = 0

plaidVars == <<pc, cfg, data, runState, i, fitVars, sigVars, backVars, returned,
               fit_calls, broke, accepted, snap>>

\* run, lines 69-75: validation, check_array, then tempfile.mkdtemp()
WBegin ==
    /\ wpc = "idle"
    /\ wruns < MaxRuns
    /\ wruns' = wruns + 1
    /\ \E params_ok \in BOOLEAN, data_ok \in BOOLEAN :
          IF params_ok /\ data_ok
          THEN /\ tmp_dir' = wruns + 1
               /\ tmp_dirs' = tmp_dirs \cup {wruns + 1}
               /\ wpc' = "write"
          ELSE /\ wpc' = "raised"
               /\ tmp_dir' = 0
               /\ UNCHANGED tmp_dirs
    /\ UNCHANGED <<wkind, pruneVars, plaidVars>>

\* run, line 77: self._write_data(data_path, data)
WWriteData ==
    /\ wpc = "write"
    /\ \E o \in HookOutcomes(wkind) : wpc' = IF o = "return" THEN "command" ELSE "raised"
    /\ UNCHANGED <<wkind, tmp_dirs, tmp_dir, wruns, pruneVars, plaidVars>>

\* run, lines 78-79: sleep, then self._get_command(data, data_path, output_path)
WGetCommand ==
    /\ wpc = "command"
    /\ \E o \in HookOutcomes(wkind) : wpc' = IF o = "return" THEN "exec" ELSE "raised"
    /\ UNCHANGED <<wkind, tmp_dirs, tmp_dir, wruns, pruneVars, plaidVars>>

\* run, line 80: subprocess.check_call(comm) raises on a non-zero exit status
WCheckCall ==
    /\ wpc = "exec"
    /\ \E status \in ExitStatuses : wpc' = IF status = 0 THEN "parse" ELSE "raised"
    /\ UNCHANGED <<wkind, tmp_dirs, tmp_dir, wruns, pruneVars, plaidVars>>

\* run, line 81: self._parse_output(output_path)
WParseOutput ==
    /\ wpc = "parse"
    /\ \E o \in HookOutcomes(wkind) : wpc' = IF o = "return" THEN "remove" ELSE "raised"
    /\ UNCHANGED <<wkind, tmp_dirs, tmp_dir, wruns, pruneVars, plaidVars>>

\* run, lines 83-85: shutil.rmtree(tmp_dir), return
WRemove ==
    /\ wpc = "remove"
    /\ tmp_dirs' = tmp_dirs \ {tmp_dir}
    /\ wpc' = "returned"
    /\ UNCHANGED <<wkind, tmp_dir, wruns, pruneVars, plaidVars>>

\* the call has ended (returned or raised); the caller may call run again
WEnd ==
    /\ wpc \in {"returned", "raised"}
    /\ wpc' = "idle"
    /\ tmp_dir' = 0
    /\ UNCHANGED <<wkind, tmp_dirs, wruns, pruneVars, plaidVars>>

NextWrapper ==
    \/ WBegin
    \/ WWriteData
    \/ WGetCommand
    \/ WCheckCall
    \/ WParseOutput
    \/ WRemove
    \/ WEnd

SpecWrapper == InitWrapper /\ [][NextWrapper]_vars

(* ============================ properties ============================== *)
SeqRange(q) == {q[k] : k \in 1..Len(q)}

\* q is p with some elements left out, order kept
IsSubSeq(q, p) ==
    /\ SeqRange(q) \subseteq SeqRange(p)
    /\ \A a, b \in 1..Len(q) : a < b =>
          \E x, y \in 1..Len(p) : x < y /\ p[x] = q[a] /\ p[y] = q[b]

(* ------------------------------- C1 ----------------------------------- *)
\* the configurations C1 says are rejected
C1_Rejected(c) ==
    \/ c.num_biclusters <= 0 \/ c.initialization_iterations <= 0 \/ c.iterations_per_layer <= 0
    \/ c.significance_tests < 0 \/ c.back_fitting_steps < 0
    \/ ~(RLess(Zero, c.row_prunning_threshold) /\ RLess(c.row_prunning_threshold, One))
    \/ ~(RLess(Zero, c.col_prunning_threshold) /\ RLess(c.col_prunning_threshold, One))

\* C1: run raises a configuration error, before the residual copy is made and
\* before any layer is fitted, exactly for the configurations with a
\* non-positive bicluster count, restart count or round budget, a negative
\* trial or back-fitting count, or a threshold outside (0, 1).
C1_ConfigErrorAsClaimed ==
    /\ pc # "start" => ((pc = "error") <=> C1_Rejected(cfg))
    /\ pc = "error" => residuals = None /\ fit_calls = 0

(* ------------------------------- C2 ----------------------------------- *)
\* C2 as claimed: for the same residuals, layer, rows and cols, and thresholds
\* t1 <= t2 in (0, 1), _prune retains at least as many indices under t2 as
\* under t1.
C2_RaisingKeepsMore ==
    ppc = "done" => Len(p_out.kept2) >= Len(p_out.kept1)

\* C2 amended: for the same residuals, layer, rows and cols, and thresholds
\* t1 <= t2 in (0, 1), what _prune retains under t2 is a sub-selection of what
\* it retains under t1 (raising the threshold never increases the retained
\* selection), and both are sub-selections of the rows given.
C2_RaisingKeepsLess ==
    ppc = "done" =>
        /\ IsSubSeq(p_out.kept2, p_out.kept1)
        /\ Len(p_out.kept2) <= Len(p_out.kept1)
        /\ IsSubSeq(p_out.kept1, p_in.rows)

\* two thresholds under which _prune retains different selections
C2_Witness ==
    /\ ppc = "done"
    /\ RLess(p_out.t1, p_out.t2)
    /\ Len(p_out.kept2) < Len(p_out.kept1)
    /\ Len(p_out.kept2) >= 1

(* ------------------------------- C8 ----------------------------------- *)
\* C8: whenever a call of ExecutableWrapper.run has ended, returned or raised,
\* no temporary directory is left behind.
C8_TmpDirRemoved ==
    wpc \in {"idle", "returned", "raised"} => tmp_dirs = {}

(* --------------------- shared by the run's properties ----------------- *)
\* the accepted biclusters as [rows, cols] pairs
Found == [k \in 1..Len(accepted) |-> [rows |-> accepted[k].rows, cols |-> accepted[k].cols]]

\* the biclusters run returned
ReturnedBiclusters == returned.biclustering.biclusters

\* the layer sequence ls fits the bicluster sequence bs, entry by entry
Aligned(bs, ls) ==
    /\ Len(bs) = Len(ls)
    /\ \A k \in 1..Len(bs) :
          /\ NRows(ls[k]) = Len(bs[k].rows)
          /\ \A a \in DOMAIN ls[k] : Cardinality(DOMAIN ls[k][a]) = Len(bs[k].cols)

\* pairwise distinct indices of 0..n-1
ValidIndices(q, n) ==
    /\ \A a, b \in 1..Len(q) : a # b => q[a] # q[b]
    /\ \A a \in 1..Len(q) : 0 <= q[a] /\ q[a] < n

C4_Alignment ==
    /\ Aligned(biclusters, layers)
    /\ (pc = "done" /\ returned.with_layers) => Aligned(ReturnedBiclusters, returned.layers)

\* a run that trimmed the background pair after accepting two biclusters
C4_Witness ==
    /\ pc = "done"
    /\ ~cfg.return_layers /\ cfg.fit_background_layer
    /\ cfg.back_fitting_steps >= 1
    /\ Len(accepted) = 2

(* ------------------------------- C5 ----------------------------------- *)
\* C5: the discovery loop calls the layer fitter at most num_biclusters times
\* and accepts at most that many biclusters; it is left early only at a
\* candidate with an empty row or column set or one the significance test
\* rejects, and then nothing more is fitted, tested or back-fitted: residuals,
\* biclusters and layers are as they were when that candidate was proposed,
\* and the run returns the biclusters accepted before it.
C5_EarlyTermination ==
    /\ fit_calls <= (IF cfg.num_biclusters > 0 THEN cfg.num_biclusters ELSE 0)
    /\ Len(accepted) <= fit_calls
    /\ broke =>
          /\ pc \in {"finalize", "done"}
          /\ Len(rows) = 0 \/ Len(cols) = 0 \/ significant = "no"
          /\ residuals = snap[1]
          /\ Len(snap[2]) = Len(accepted) + (IF cfg.fit_background_layer THEN 1 ELSE 0)
          /\ pc = "finalize" => runState = snap
          /\ pc = "done" =>
                ReturnedBiclusters =
                    IF cfg.return_layers
                    THEN (IF cfg.fit_background_layer THEN <<FullBicluster>> ELSE <<>>)
                         \o Found \o <<FullBicluster>>
                    ELSE Found

\* a run that accepted one bicluster and stopped at a rejected second candidate
C5_Witness ==
    /\ pc = "done"
    /\ broke
    /\ significant = "no"
    /\ Len(accepted) = 1
    /\ fit_calls = 2

C7_IndexValidity ==
    /\ \A k \in 1..Len(biclusters) :
          /\ ValidIndices(biclusters[k].rows, NRows(data))
          /\ ValidIndices(biclusters[k].cols, NCols(data))
    /\ \A k \in 1..Len(accepted) :
          /\ Len(accepted[k].rows) >= 1 /\ Len(accepted[k].cols) >= 1
          /\ IsSubSeq(accepted[k].rows, accepted[k].init_rows)
          /\ IsSubSeq(accepted[k].cols, accepted[k].init_cols)
    /\ pc \in {"fit", "fitted", "accept"} =>
          /\ ValidIndices(init_rows, NRows(data)) /\ ValidIndices(init_cols, NCols(data))
          /\ IsSubSeq(rows, init_rows) /\ IsSubSeq(cols, init_cols)
    /\ (pc \in {"fit", "fitted"} /\ fround >= 1) =>
          IsSubSeq(rows, rows_old) /\ IsSubSeq(cols, cols_old)
    /\ pc = "done" =>
          /\ \A k \in 1..Len(ReturnedBiclusters) :
                /\ ValidIndices(ReturnedBiclusters[k].rows, NRows(data))
                /\ ValidIndices(ReturnedBiclusters[k].cols, NCols(data))
          /\ \E pre \in {<<>>, <<FullBicluster>>}, post \in {<<>>, <<FullBicluster>>} :
                ReturnedBiclusters = pre \o Found \o post

\* a returned bicluster that pruning cut down from its initial selection
C7_Witness ==
    /\ pc = "done"
    /\ Len(accepted) = 1
    /\ Len(accepted[1].rows) < Len(accepted[1].init_rows)
    /\ Len(accepted[1].cols) = 2

(* ------------------------------- C9 ----------------------------------- *)
\* Position a of keep_from survives a pruning pass scored over the indices
\* `against`. along_rows: keep_from are row indices and against column
\* indices; otherwise the other way round. lay is the layer fitted over the
\* round's row and column sets.
C9_Survives(res, lay, keep_from, against, thr, along_rows, a) ==
    LET n == Len(against)
        val(b) == IF along_rows THEN res[keep_from[a]][against[b]]
                  ELSE res[against[b]][keep_from[a]]
        fit(b) == IF along_rows THEN lay[a - 1][b - 1] ELSE lay[b - 1][a - 1]
        ssd == RSum([b \in 0..(n - 1) |->
                        LET e == RSub(val(b + 1), fit(b + 1)) IN RMul(e, e)], n)
        ssr == RSum([b \in 0..(n - 1) |-> RMul(val(b + 1), val(b + 1))], n)
    IN RLess(ssd, RMul(RSub(One, thr), ssr))

\* the elements of keep_from that survive, in order
C9_Kept(res, lay, keep_from, against, thr, along_rows) ==
    LET pos == SelectSeq([a \in 1..Len(keep_from) |-> a],
                         LAMBDA a : C9_Survives(res, lay, keep_from, against, thr, along_rows, a))
    IN [k \in 1..Len(pos) |-> keep_from[pos[k]]]

\* C9: each round of _fit_layer keeps the rows of the round's row set that
\* pass against the round's column set, and the columns of the round's
\* column set that pass against the round's row set as it was before the
\* rows were pruned, both scored with the layer fitted before the round; the
\* layer is refitted over the new sets when both are non-empty, and kept as
\* it was when the round empties one; the loop goes on until the round
\* budget is spent or a round empties a set, and not otherwise.
C9_RoundProtocol ==
    /\ (pc \in {"fit", "fitted"} /\ fround >= 1) =>
          /\ rows = C9_Kept(residuals, layer_old, rows_old, cols_old,
                            cfg.row_prunning_threshold, TRUE)
          /\ cols = C9_Kept(residuals, layer_old, cols_old, rows_old,
                            cfg.col_prunning_threshold, FALSE)
          /\ IF Len(rows) = 0 \/ Len(cols) = 0
             THEN layer = layer_old /\ pc = "fitted"
             ELSE layer = CreateLayer(SubMatrix(residuals, rows, cols))
    /\ pc = "fit" => fround < cfg.iterations_per_layer /\ Len(rows) >= 1 /\ Len(cols) >= 1
    /\ pc = "fitted" =>
          \/ fround = cfg.iterations_per_layer
          \/ fround >= 1 /\ (Len(rows) = 0 \/ Len(cols) = 0)
    /\ (pc \in {"fit", "fitted"} /\ fround = 0) =>
          /\ rows = init_rows /\ cols = init_cols
          /\ layer = CreateLayer(SubMatrix(residuals, rows, cols))

\* the second of two rounds ran although it changed nothing, after a first
\* round that pruned a row
C9_Witness ==
    /\ pc = "fitted"
    /\ fround = 2
    /\ rows = rows_old /\ cols = cols_old
    /\ Len(rows) < Len(init_rows)

(* ------------------------------- C10 ---------------------------------- *)
\* the position of index x in the index sequence q
PosOf(q, x) == CHOOSE a \in 1..Len(q) : q[a] = x

\* the sum over the first k pairs of the layer's value at cell (x, y), for the
\* pairs whose bicluster holds the cell
RECURSIVE LayerSumAt(_, _, _, _, _)
LayerSumAt(bs, ls, x, y, k) ==
    IF k = 0 THEN Zero
    ELSE RAdd(LayerSumAt(bs, ls, x, y, k - 1),
              IF x \in SeqRange(bs[k].rows) /\ y \in SeqRange(bs[k].cols)
              THEN ls[k][PosOf(bs[k].rows, x) - 1][PosOf(bs[k].cols, y) - 1]
              ELSE Zero)

\* C10: from the residual copy on, between run's operations (after the
\* background subtraction, each accepted layer's subtraction and each
\* back-fitting visit of one pair), every cell of the input equals the
\* residual at the cell plus the values at the cell of the layers whose
\* bicluster holds it; in layers mode the returned layers, residuals last, sum
\* back to the input.
C10_Decomposition ==
    /\ pc \in {"background", "loop", "fit", "fitted", "sig", "accept", "backfit", "finalize"} =>
          \A x \in DOMAIN data : \A y \in DOMAIN data[x] :
              data[x][y] = RAdd(residuals[x][y],
                                LayerSumAt(biclusters, layers, x, y, Len(layers)))
    /\ (pc = "done" /\ returned.with_layers) =>
          \A x \in DOMAIN data : \A y \in DOMAIN data[x] :
              data[x][y] = LayerSumAt(ReturnedBiclusters, returned.layers, x, y,
                                      Len(returned.layers))

\* back-fitting has refitted the background pair under a two-row bicluster
\* that overlaps it
C10_Witness ==
    /\ pc = "backfit"
    /\ bj = 1
    /\ cfg.fit_background_layer
    /\ Len(accepted) = 1
    /\ Len(accepted[1].rows) = 2 /\ Len(accepted[1].cols) = 2

====
